---- MODULE Spec2Model ----
(***************************************************************************)
(* State-machine model of RayTracer (src/src/RayTracer.cpp): the per-frame *)
(* driver DrawFrame/Render, the accumulation counters, scene hot-swapping  *)
(* through LoadScene, the benchmark controller and the input handlers.     *)
(***************************************************************************)
EXTENDS Integers, Sequences, FiniteSets, TLC

(***************************************************************************)
(* Bounds of the model.                                                    *)
(***************************************************************************)
\* Number of entries of SceneList::AllScenes.
SceneCount == 2
\* Window().Time() is capped: no frame starts when it could end past this
\* time, counted from the first frame of the scene in benchmark mode and from
\* the start of the run outside it.
MaxBenchmarkTime == 21
MaxInteractiveTime == 8
\* Largest time between two calls of Render.
MaxFrameTime == 4
\* Number of UI edits, input events and window resizes in one run.
MaxEdits == 1
\* Width of the unsigned counters of the model; the program's uint32_t has
\* 32 bits, and every value of the model stays far below either modulus.
UIntBits == 16

UIntModulus == 2 ^ UIntBits

(***************************************************************************)
(* Program constants.                                                      *)
(***************************************************************************)
\* const double period = 5;
BenchmarkPeriod == 5

(***************************************************************************)
(* Unsigned arithmetic of totalNumberOfSamples_ and numberOfSamples_.      *)
(***************************************************************************)
USub(a, b) == ((a - b) + UIntModulus) % UIntModulus

UAdd(a, b) == (a + b) % UIntModulus

Min(a, b) == IF a <= b THEN a ELSE b

Max(a, b) == IF a >= b THEN a ELSE b

\* glm::clamp(x, minVal, maxVal) = min(max(x, minVal), maxVal)
Clamp(x, minVal, maxVal) == Min(Max(x, minVal), maxVal)

(***************************************************************************)
(* The scene registry and the settings.                                    *)
(***************************************************************************)
SceneIndices == 0 .. (SceneCount - 1)

NoScene == -1

\* The CameraInitialState the factory of scene i produces.
CameraOf(i) ==
    [FieldOfView |-> 20 + i, Aperture |-> i, FocusDistance |-> 10 + i,
     GammaCorrection |-> (i % 2 = 0)]

\* cameraInitialSate_ before the first LoadScene.
NoCamera ==
    [FieldOfView |-> 0, Aperture |-> 0, FocusDistance |-> 0, GammaCorrection |-> FALSE]

\* The sample counts a run can be started with (the UI offers the others).
SamplesValues == {0, 2}

MaxSamplesValues == {0, 4}

BenchmarkMaxTimeValues == {5, 20}

\* The time between two calls of Render: a short frame or a long one.
FrameTimes == {1, MaxFrameTime}

\* The values the UI can give to each user-mutable field of UserSettings.
FieldValues(f) ==
    CASE f = "SceneIndex" -> SceneIndices
      [] f = "AccumulateRays" -> BOOLEAN
      [] f = "NumberOfSamples" -> {1, 2}
      [] f = "NumberOfBounces" -> {1, 2}
      [] f = "MaxNumberOfSamples" -> {3, 4}
      [] f = "FieldOfView" -> {CameraOf(0).FieldOfView, 90}
      [] f = "Aperture" -> {CameraOf(0).Aperture, 1}
      [] f = "FocusDistance" -> {CameraOf(0).FocusDistance, 11}
      [] f = "GammaCorrection" -> BOOLEAN

\* The fields the settings window edits (the keys of OnKey switch the toggles).
EditableFields ==
    {"SceneIndex", "AccumulateRays", "NumberOfSamples", "NumberOfBounces",
     "MaxNumberOfSamples", "FieldOfView", "Aperture", "FocusDistance",
     "GammaCorrection"}

\* The fields that are pure UI toggles.
UIToggleFields == {"ShowSettings", "ShowOverlay"}

\* A value-initialised UserSettings (previousSettings_ before the first frame).
DefaultSettings ==
    [Benchmark |-> FALSE, BenchmarkNextScenes |-> FALSE, BenchmarkMaxTime |-> 0,
     SceneIndex |-> 0, IsRayTraced |-> FALSE, AccumulateRays |-> FALSE,
     NumberOfSamples |-> 0, NumberOfBounces |-> 0, MaxNumberOfSamples |-> 0,
     FieldOfView |-> 0, Aperture |-> 0, FocusDistance |-> 0,
     GammaCorrection |-> FALSE, ShowSettings |-> FALSE, ShowOverlay |-> FALSE]

\* UserSettings::RequiresAccumulationReset(prev): a change in any field that
\* affects the rendered image, i.e. anything except the pure UI toggles.
RequiresAccumulationReset(cur, prev) ==
    \E f \in (DOMAIN cur) \ UIToggleFields : cur[f] # prev[f]

VARIABLES
    pc,                     \* position of the main thread
    ret,                    \* the caller LoadScene returns to
    userSettings_,          \* UserSettings userSettings_
    previousSettings_,      \* UserSettings previousSettings_
    cameraInitialSate_,     \* CameraInitialState cameraInitialSate_
    sceneIndex_,            \* uint32_t sceneIndex_
    totalNumberOfSamples_,  \* uint32_t totalNumberOfSamples_
    numberOfSamples_,       \* uint32_t numberOfSamples_
    resetAccumulation_,     \* bool resetAccumulation_
    isWireFrame_,           \* bool isWireFrame_
    time_,                  \* double time_
    sceneInitialTime_,      \* double sceneInitialTime_
    periodInitialTime_,     \* double periodInitialTime_
    periodTotalFrames_,     \* uint32_t periodTotalFrames_
    scene_,                 \* std::unique_ptr<Scene> scene_: NoScene or the index it was built from
    newScene,               \* the Scene built by new and not yet owned by scene_
    gpu,                    \* which GPU resources exist, and the calls of the handler in progress
    window,                 \* the window: configuration, framebuffer size, close request
    lastFrame,              \* what the last call of DrawFrame did
    out,                    \* what the run has printed and called so far
    edits                   \* number of UI edits, input events and resizes so far

vars ==
    <<pc, ret, userSettings_, previousSettings_, cameraInitialSate_, sceneIndex_,
      totalNumberOfSamples_, numberOfSamples_, resetAccumulation_, isWireFrame_,
      time_, sceneInitialTime_, periodInitialTime_, periodTotalFrames_,
      scene_, newScene, gpu, window, lastFrame, out, edits>>

(***************************************************************************)
(* The window and the GPU resources.                                       *)
(***************************************************************************)
\* The requested size of the window (Window().Config()).
RequestedSize == [width |-> 2, height |-> 2]

\* The sizes Window().FramebufferSize() can report.
FramebufferSizes ==
    {RequestedSize,
     [RequestedSize EXCEPT !.width = @ + 1],
     [RequestedSize EXCEPT !.height = @ - 1]}

\* A check that does not look at the fullscreen request.
FramebufferSizeMismatchWindowed(s, w) ==
    /\ s.Benchmark
    /\ (w.fbSize.width # w.Width \/ w.fbSize.height # w.Height)

\* The condition under which CheckFramebufferSize throws.
FramebufferSizeMismatch(s, w) ==
    /\ s.Benchmark
    /\ w.Fullscreen
    /\ (w.fbSize.width # w.Width \/ w.fbSize.height # w.Height)

Call(g, name) == [g EXCEPT !.calls = Append(@, name)]

\* Device().WaitIdle()
WaitIdle(g) == [Call(g, "WaitIdle") EXCEPT !.busy = FALSE]

\* A resource destroyed while the device still executes commands that use it.
Destroyed(g) == [g EXCEPT !.hazard = @ \/ g.busy]

\* RayTracer::DeleteSwapChain: the UI, then the swapchain-dependent objects.
DeleteSwapChain(g) ==
    [Destroyed(Call(g, "DeleteSwapChain")) EXCEPT
        !.userInterface = FALSE, !.swapChain = FALSE]

DeleteAccelerationStructures(g) ==
    [Destroyed(Call(g, "DeleteAccelerationStructures")) EXCEPT
        !.accelerationStructures = FALSE]

CreateAccelerationStructures(g) ==
    [Call(g, "CreateAccelerationStructures") EXCEPT !.accelerationStructures = TRUE]

\* RayTracer::CreateSwapChain, the GPU side: the swapchain-dependent objects
\* (the ray-tracing pipeline refers to the acceleration structures), then the UI.
CreateSwapChainObjects(g) ==
    [Call(g, "CreateSwapChain") EXCEPT
        !.swapChain = TRUE, !.userInterface = TRUE,
        !.dangling = @ \/ ~g.accelerationStructures]

\* A teardown that waits for the device after it destroyed the resources.
SceneChangeTeardownThenWait(g) ==
    WaitIdle(DeleteAccelerationStructures(DeleteSwapChain(g)))

\* DrawFrame, lines 90-92.
SceneChangeTeardown(g) ==
    DeleteAccelerationStructures(DeleteSwapChain(WaitIdle(g)))

\* DrawFrame, lines 94-95.
SceneChangeRebuild(g) ==
    CreateSwapChainObjects(CreateAccelerationStructures(g))

\* Application::RecreateSwapChain.
RecreateSwapChainObjects(g) ==
    CreateSwapChainObjects(DeleteSwapChain(WaitIdle(g)))

NewHandler(g) == [g EXCEPT !.calls = <<>>]

\* A scene-change check that takes every frame for a scene change.
SceneChangedAlways(active, requested) ==
    TRUE

\* DrawFrame, line 88: the active index against the requested one.
SceneChanged(active, requested) ==
    active # requested

\* A copy of the camera values that leaves out the gamma correction.
ApplyCameraInitialStateKeepsGamma(s, init) ==
    [s EXCEPT !.FieldOfView = init.FieldOfView, !.Aperture = init.Aperture,
              !.FocusDistance = init.FocusDistance]

\* LoadScene, lines 223-226.
ApplyCameraInitialState(s, init) ==
    [s EXCEPT !.FieldOfView = init.FieldOfView, !.Aperture = init.Aperture,
              !.FocusDistance = init.FocusDistance,
              !.GammaCorrection = init.GammaCorrection]

(***************************************************************************)
(* The accumulation check and the sample budget of DrawFrame.              *)
(***************************************************************************)
\* A reset check that leaves out the comparison with the snapshot.
NeedsResetFlagOnly(flag, cur, prev) ==
    flag \/ ~cur.AccumulateRays

\* A reset check that compares every field, the UI toggles included.
NeedsResetAnyEdit(flag, cur, prev) ==
    flag \/ cur # prev \/ ~cur.AccumulateRays

\* A reset check that leaves out the force-reset flag.
NeedsResetNoFlag(flag, cur, prev) ==
    RequiresAccumulationReset(cur, prev) \/ ~cur.AccumulateRays

\* A reset check that never resets.
NeedsResetNever(flag, cur, prev) ==
    FALSE

\* A reset check that leaves out the accumulate flag.
NeedsResetNoAccumulate(flag, cur, prev) ==
    flag \/ RequiresAccumulationReset(cur, prev)

\* DrawFrame, lines 100-102.
NeedsReset(flag, cur, prev) ==
    flag \/ RequiresAccumulationReset(cur, prev) \/ ~cur.AccumulateRays

\* A budget that takes the per-frame count whatever remains.
SampleBudgetPerFrame(maxSamples, total, perFrame) ==
    perFrame

\* A budget that takes all that remains at once.
SampleBudgetRemaining(maxSamples, total, perFrame) ==
    USub(maxSamples, total)

\* DrawFrame, line 111.
SampleBudget(maxSamples, total, perFrame) ==
    Clamp(USub(maxSamples, total), 0, perFrame)

\* The record of a call of DrawFrame: which path it took and, for the
\* accumulation path, whether line 104 ran (reset), the force-reset flag and
\* the two comparisons of the settings with the snapshot when the check ran,
\* totalNumberOfSamples_ when line 111 ran, and the number of frames since
\* the last reset, that frame included; and, once Render ran, the result of
\* the camera update of line 125 (moved).
NoFrame ==
    [kind |-> "none", reset |-> FALSE, flag |-> FALSE, changed |-> FALSE,
     edited |-> FALSE, totalBefore |-> 0, epochFrames |-> 0, moved |-> FALSE]

NoOutput ==
    [starts |-> 0, reports |-> 0, advances |-> 0, closeCalls |-> 0,
     loads |-> <<>>, cameraResets |-> 0, events |-> <<>>, requests |-> <<>>]

(***************************************************************************)
(* Construction: RayTracer::RayTracer runs CheckFramebufferSize.           *)
(***************************************************************************)
\* The settings the application is started with: the scene, the accumulate
\* flag and the two sample counts are the user's, the settings window is shown
\* unless the run is a benchmark.
StartSettings(b, n, t) ==
    {[DefaultSettings EXCEPT
        !.Benchmark = b, !.BenchmarkNextScenes = n, !.BenchmarkMaxTime = t,
        !.SceneIndex = i, !.IsRayTraced = TRUE, !.AccumulateRays = a,
        !.NumberOfSamples = s, !.NumberOfBounces = 1, !.MaxNumberOfSamples = m,
        !.ShowSettings = ~b] :
        i \in SceneIndices, a \in BOOLEAN, s \in SamplesValues,
        m \in MaxSamplesValues}

StartWindow(f, z) ==
    [Width |-> RequestedSize.width, Height |-> RequestedSize.height,
     Fullscreen |-> f, fbSize |-> z, closeRequested |-> FALSE]

\* The state after the constructor, for the given settings and window.
Constructed(settings, windows) ==
    /\ userSettings_ \in settings
    /\ window \in windows
    /\ pc = IF FramebufferSizeMismatch(userSettings_, window)
            THEN "fatal" ELSE "constructed"
    /\ ret = "none"
    /\ previousSettings_ = DefaultSettings
    /\ cameraInitialSate_ = NoCamera
    /\ sceneIndex_ = 0
    /\ totalNumberOfSamples_ = 0
    /\ numberOfSamples_ = 0
    /\ resetAccumulation_ = FALSE
    /\ isWireFrame_ = FALSE
    /\ time_ = 0
    /\ sceneInitialTime_ = 0
    /\ periodInitialTime_ = 0
    /\ periodTotalFrames_ = 0
    /\ scene_ = NoScene
    /\ newScene = NoScene
    /\ gpu = [swapChain |-> FALSE, userInterface |-> FALSE,
              accelerationStructures |-> FALSE, busy |-> FALSE,
              hazard |-> FALSE, dangling |-> FALSE, calls |-> <<>>]
    /\ lastFrame = NoFrame
    /\ out = NoOutput
    /\ edits = 0

\* An interactive run in a window of the requested size.
Init ==
    Constructed(StartSettings(FALSE, FALSE, 0), {StartWindow(FALSE, RequestedSize)})

(***************************************************************************)
(* Start-up: Application sets the device, which calls OnDeviceSet, and     *)
(* then creates the first swapchain.                                       *)
(***************************************************************************)
\* OnDeviceSet, lines 62-64: enters LoadScene(userSettings_.SceneIndex).
OnDeviceSet ==
    /\ pc = "constructed"
    /\ pc' = "LoadScene"
    /\ ret' = "OnDeviceSet"
    /\ gpu' = NewHandler(gpu)
    /\ UNCHANGED <<userSettings_, previousSettings_, cameraInitialSate_,
                   sceneIndex_, totalNumberOfSamples_, numberOfSamples_,
                   resetAccumulation_, isWireFrame_, time_, sceneInitialTime_,
                   periodInitialTime_, periodTotalFrames_, scene_, newScene,
                   window, lastFrame, out, edits>>

\* LoadScene, lines 212-220: the factory of the registry entry runs and the
\* new Scene is built, while scene_ still owns the old one. Indexing the
\* registry out of bounds is undefined: the process crashes, or goes on with
\* whatever the memory behind the registry holds.
LoadSceneConstruct ==
    /\ pc = "LoadScene"
    /\ \/ /\ userSettings_.SceneIndex \in SceneIndices
          /\ cameraInitialSate_' = CameraOf(userSettings_.SceneIndex)
          /\ newScene' = userSettings_.SceneIndex
          /\ pc' = "LoadSceneReset"
       \/ /\ userSettings_.SceneIndex \notin SceneIndices
          /\ \/ /\ pc' = "fatal"
                /\ UNCHANGED <<cameraInitialSate_, newScene>>
             \/ /\ \E j \in SceneIndices :
                      /\ cameraInitialSate_' = CameraOf(j)
                      /\ newScene' = j
                /\ pc' = "LoadSceneReset"
    /\ gpu' = Call(gpu, "LoadScene")
    /\ UNCHANGED <<ret, userSettings_, previousSettings_, sceneIndex_,
                   totalNumberOfSamples_, numberOfSamples_, resetAccumulation_,
                   isWireFrame_, time_, sceneInitialTime_, periodInitialTime_,
                   periodTotalFrames_, scene_, window, lastFrame, out, edits>>

\* LoadScene, lines 220-231: scene_.reset destroys the old Scene and owns the
\* new one; the settings take the camera values of the scene.
LoadSceneReset ==
    /\ pc = "LoadSceneReset"
    /\ scene_' = newScene
    /\ newScene' = NoScene
    /\ sceneIndex_' = userSettings_.SceneIndex
    /\ userSettings_' = ApplyCameraInitialState(userSettings_, cameraInitialSate_)
    /\ out' = [out EXCEPT !.cameraResets = @ + 1,
                          !.loads = Append(@, userSettings_.SceneIndex)]
    /\ periodTotalFrames_' = 0
    /\ resetAccumulation_' = TRUE
    /\ pc' = IF ret = "OnDeviceSet" THEN "OnDeviceSetReturn" ELSE "DrawFrameRebuild"
    /\ UNCHANGED <<ret, previousSettings_, cameraInitialSate_,
                   totalNumberOfSamples_, numberOfSamples_, isWireFrame_, time_,
                   sceneInitialTime_, periodInitialTime_, gpu, window,
                   lastFrame, edits>>

\* OnDeviceSet, line 65.
OnDeviceSetReturn ==
    /\ pc = "OnDeviceSetReturn"
    /\ gpu' = CreateAccelerationStructures(gpu)
    /\ pc' = "CreateSwapChain"
    /\ UNCHANGED <<ret, userSettings_, previousSettings_, cameraInitialSate_,
                   sceneIndex_, totalNumberOfSamples_, numberOfSamples_,
                   resetAccumulation_, isWireFrame_, time_, sceneInitialTime_,
                   periodInitialTime_, periodTotalFrames_, scene_, newScene,
                   window, lastFrame, out, edits>>

\* CreateSwapChain, lines 68-76, called by Application for the first swapchain.
CreateSwapChain ==
    /\ pc = "CreateSwapChain"
    /\ gpu' = CreateSwapChainObjects(gpu)
    /\ resetAccumulation_' = TRUE
    /\ pc' = IF FramebufferSizeMismatch(userSettings_, window)
             THEN "fatal" ELSE "loop"
    /\ UNCHANGED <<ret, userSettings_, previousSettings_, cameraInitialSate_,
                   sceneIndex_, totalNumberOfSamples_, numberOfSamples_,
                   isWireFrame_, time_, sceneInitialTime_, periodInitialTime_,
                   periodTotalFrames_, scene_, newScene, window, lastFrame,
                   out, edits>>

(***************************************************************************)
(* DrawFrame.                                                              *)
(***************************************************************************)
\* The cap of Window().Time(): an interactive run ends at MaxInteractiveTime;
\* a benchmark scene gets its first frame, and further frames until
\* MaxBenchmarkTime after that one.
TimeLeft ==
    IF userSettings_.Benchmark
    THEN \/ periodTotalFrames_ = 0
         \/ time_ - sceneInitialTime_ + MaxFrameTime <= MaxBenchmarkTime
    ELSE time_ + MaxFrameTime <= MaxInteractiveTime

\* The main loop calls DrawFrame until the window is asked to close.
FrameDue ==
    /\ pc = "loop"
    /\ ~window.closeRequested
    /\ TimeLeft

\* DrawFrame, lines 88-92: the scene index changed.
DrawFrameSceneChange ==
    /\ FrameDue
    /\ SceneChanged(sceneIndex_, userSettings_.SceneIndex)
    /\ gpu' = SceneChangeTeardown(NewHandler(gpu))
    /\ lastFrame' = [NoFrame EXCEPT !.kind = "sceneChange"]
    /\ pc' = "LoadScene"
    /\ ret' = "DrawFrame"
    /\ UNCHANGED <<userSettings_, previousSettings_, cameraInitialSate_,
                   sceneIndex_, totalNumberOfSamples_, numberOfSamples_,
                   resetAccumulation_, isWireFrame_, time_, sceneInitialTime_,
                   periodInitialTime_, periodTotalFrames_, scene_, newScene,
                   window, out, edits>>

\* DrawFrame, lines 94-96: after LoadScene, rebuild and return.
DrawFrameRebuild ==
    /\ pc = "DrawFrameRebuild"
    /\ gpu' = SceneChangeRebuild(gpu)
    /\ resetAccumulation_' = TRUE
    /\ pc' = IF FramebufferSizeMismatch(userSettings_, window)
             THEN "fatal" ELSE "loop"
    /\ UNCHANGED <<ret, userSettings_, previousSettings_, cameraInitialSate_,
                   sceneIndex_, totalNumberOfSamples_, numberOfSamples_,
                   isWireFrame_, time_, sceneInitialTime_, periodInitialTime_,
                   periodTotalFrames_, scene_, newScene, window, lastFrame,
                   out, edits>>

\* DrawFrame, lines 99-112: the accumulation check and the sample budget.
DrawFrameAccumulate ==
    /\ FrameDue
    /\ ~SceneChanged(sceneIndex_, userSettings_.SceneIndex)
    /\ LET reset == NeedsReset(resetAccumulation_, userSettings_, previousSettings_)
           total == IF reset THEN 0 ELSE totalNumberOfSamples_
           flag == IF reset THEN FALSE ELSE resetAccumulation_
           samples == SampleBudget(userSettings_.MaxNumberOfSamples, total,
                                   userSettings_.NumberOfSamples)
       IN  /\ resetAccumulation_' = flag
           /\ previousSettings_' = userSettings_
           /\ numberOfSamples_' = samples
           /\ totalNumberOfSamples_' = UAdd(total, samples)
           /\ lastFrame' =
                 [kind |-> "accumulate", reset |-> reset,
                  flag |-> resetAccumulation_,
                  changed |-> RequiresAccumulationReset(userSettings_, previousSettings_),
                  edited |-> userSettings_ # previousSettings_,
                  totalBefore |-> total,
                  epochFrames |-> IF reset THEN 1 ELSE lastFrame.epochFrames + 1,
                  moved |-> FALSE]
    /\ gpu' = NewHandler(gpu)
    /\ pc' = "ApplicationDrawFrame"
    /\ UNCHANGED <<ret, userSettings_, cameraInitialSate_, sceneIndex_,
                   isWireFrame_, time_, sceneInitialTime_, periodInitialTime_,
                   periodTotalFrames_, scene_, newScene, window, out, edits>>

(***************************************************************************)
(* The benchmark controller, CheckAndUpdateBenchmarkState.  It works on a  *)
(* record b of the members it reads and writes: the settings s, the time   *)
(* now (time_, already updated by Render), the three benchmark members,    *)
(* numberOfSamples, the window's close request and the output so far.      *)
(***************************************************************************)
\* Lines 242-248: the first frame of a scene starts the timers.
BenchmarkStart(b) ==
    IF b.periodTotalFrames = 0
    THEN [b EXCEPT !.sceneInitialTime = b.now, !.periodInitialTime = b.now,
                   !.out.starts = @ + 1, !.out.reports = 0]
    ELSE b

\* A boundary test by a running modulo of the elapsed time.
PeriodCrossedExact(prevTotalTime, totalTime, period) ==
    totalTime % period = 0

\* Line 256: the truncating casts of the two elapsed times over the period.
PeriodCrossed(prevTotalTime, totalTime, period) ==
    (prevTotalTime \div period) # (totalTime \div period)

\* Lines 251-264: the frame-rate report and the frame counter of the period.
BenchmarkPeriodReport(b, prevTime) ==
    LET prevTotalTime == prevTime - b.periodInitialTime
        totalTime == b.now - b.periodInitialTime
        c == IF /\ b.periodTotalFrames # 0
                /\ PeriodCrossed(prevTotalTime, totalTime, BenchmarkPeriod)
             THEN [b EXCEPT !.out.reports = @ + 1,
                            !.periodInitialTime = b.now,
                            !.periodTotalFrames = 0]
             ELSE b
    IN  [c EXCEPT !.periodTotalFrames = UAdd(@, 1)]

\* A last-scene test against the size of the registry instead of size - 1.
ClosesWindowOffByOne(s) ==
    ~s.BenchmarkNextScenes \/ s.SceneIndex = SceneCount

\* A test that closes the window at the last scene only.
ClosesWindowOnlyWhenLast(s) ==
    s.SceneIndex = SceneCount - 1

\* A test that closes the window only when the advance through the scenes is off.
ClosesWindowOnlyWhenDisabled(s) ==
    ~s.BenchmarkNextScenes

\* Line 273: whether the scene advance closes the window.
ClosesWindow(s) ==
    ~s.BenchmarkNextScenes \/ s.SceneIndex = SceneCount - 1

\* Lines 273-276: Window().Close(), when the advance ends the run.
BenchmarkClose(b) ==
    IF ClosesWindow(b.s)
    THEN [b EXCEPT !.closeRequested = TRUE,
                   !.out.closeCalls = @ + 1,
                   !.out.events = Append(@, "Close")]
    ELSE b

\* Line 279: userSettings_.SceneIndex += 1.
BenchmarkIncrement(b) ==
    [b EXCEPT !.s.SceneIndex = @ + 1,
              !.out.advances = @ + 1,
              !.out.events = Append(@, "SceneIndex += 1")]

\* Lines 268-271: the time limit or the sample limit is reached.
BenchmarkLimitReached(b) ==
    LET timeLimitReached ==
            b.periodTotalFrames # 0 /\ b.now - b.sceneInitialTime > b.s.BenchmarkMaxTime
        sampleLimitReached == b.numberOfSamples = 0
    IN  timeLimitReached \/ sampleLimitReached

\* An advance that increments the scene index before it closes the window.
BenchmarkAdvanceIncrementFirst(b) ==
    IF BenchmarkLimitReached(b)
    THEN LET c == BenchmarkIncrement(b)
         IN  IF ClosesWindow(b.s)
             THEN [c EXCEPT !.closeRequested = TRUE,
                            !.out.closeCalls = @ + 1,
                            !.out.events = Append(@, "Close")]
             ELSE c
    ELSE b

\* A controller that never leaves its scene.
BenchmarkAdvanceNever(b) ==
    b

\* Lines 267-281: leave the scene at the time limit or the sample limit.
BenchmarkAdvance(b) ==
    IF BenchmarkLimitReached(b)
    THEN BenchmarkIncrement(BenchmarkClose(b))
    ELSE b

\* Lines 234-282.
CheckAndUpdateBenchmarkState(b, prevTime) ==
    IF ~b.s.Benchmark
    THEN b
    ELSE BenchmarkAdvance(BenchmarkPeriodReport(BenchmarkStart(b), prevTime))

(***************************************************************************)
(* Application::DrawFrame: it renders the frame through Render, or finds   *)
(* the swapchain out of date and recreates it.                             *)
(***************************************************************************)
\* Render, lines 117-152. timeDelta is the time since the last Render and
\* moved the result of modelViewController_.UpdateCamera.
Render ==
    /\ pc = "ApplicationDrawFrame"
    /\ \E timeDelta \in FrameTimes, moved \in BOOLEAN :
          LET prevTime == time_
              b == CheckAndUpdateBenchmarkState(
                      [s |-> userSettings_, now |-> prevTime + timeDelta,
                       sceneInitialTime |-> sceneInitialTime_,
                       periodInitialTime |-> periodInitialTime_,
                       periodTotalFrames |-> periodTotalFrames_,
                       numberOfSamples |-> numberOfSamples_,
                       closeRequested |-> window.closeRequested,
                       out |-> out],
                      prevTime)
          IN  /\ time_' = prevTime + timeDelta
              /\ resetAccumulation_' = moved
              /\ userSettings_' = b.s
              /\ sceneInitialTime_' = b.sceneInitialTime
              /\ periodInitialTime_' = b.periodInitialTime
              /\ periodTotalFrames_' = b.periodTotalFrames
              /\ window' = [window EXCEPT !.closeRequested = b.closeRequested]
              /\ out' = b.out
              /\ lastFrame' = [lastFrame EXCEPT !.moved = moved]
    /\ gpu' = [Call(gpu, "Render") EXCEPT !.busy = TRUE]
    /\ pc' = "loop"
    /\ UNCHANGED <<ret, previousSettings_, cameraInitialSate_, sceneIndex_,
                   totalNumberOfSamples_, numberOfSamples_, isWireFrame_,
                   scene_, newScene, edits>>

\* Application::RecreateSwapChain after a resize of the window: the device
\* idles, DeleteSwapChain and CreateSwapChain (lines 68-83) run, and the
\* frame is not rendered.
RecreateSwapChain ==
    /\ pc = "ApplicationDrawFrame"
    /\ edits < MaxEdits
    /\ edits' = edits + 1
    /\ \E size \in FramebufferSizes :
          /\ window' = [window EXCEPT !.fbSize = size]
          /\ pc' = IF FramebufferSizeMismatch(userSettings_, window')
                   THEN "fatal" ELSE "loop"
    /\ gpu' = RecreateSwapChainObjects(gpu)
    /\ resetAccumulation_' = TRUE
    /\ UNCHANGED <<ret, userSettings_, previousSettings_, cameraInitialSate_,
                   sceneIndex_, totalNumberOfSamples_, numberOfSamples_,
                   isWireFrame_, time_, sceneInitialTime_, periodInitialTime_,
                   periodTotalFrames_, scene_, newScene, lastFrame, out>>

(***************************************************************************)
(* Events between two frames: the UI edits a setting, or the window        *)
(* delivers an input event.                                                *)
(***************************************************************************)
EventDue ==
    /\ pc = "loop"
    /\ ~window.closeRequested
    /\ edits < MaxEdits

\* The settings window of the UI writes one field of userSettings_ (the UI
\* holds the reference given at line 72), when it is shown and the run is no
\* benchmark.
UIEdit ==
    /\ EventDue
    /\ ~userSettings_.Benchmark
    /\ userSettings_.ShowSettings
    /\ gpu.userInterface
    /\ \E f \in EditableFields : \E v \in FieldValues(f) :
          /\ v # userSettings_[f]
          /\ userSettings_' = [userSettings_ EXCEPT ![f] = v]
    /\ edits' = edits + 1
    /\ UNCHANGED <<pc, ret, previousSettings_, cameraInitialSate_, sceneIndex_,
                   totalNumberOfSamples_, numberOfSamples_, resetAccumulation_,
                   isWireFrame_, time_, sceneInitialTime_, periodInitialTime_,
                   periodTotalFrames_, scene_, newScene, gpu, window,
                   lastFrame, out>>

Keys == {"ESCAPE", "F1", "F2", "R", "P", "W"}

KeyActions == {"PRESS", "RELEASE"}

Toggle(s, f) == [s EXCEPT ![f] = ~@]

\* OnKey, lines 169-178: the toggle switches.
KeyToggles(s, key) ==
    CASE key = "F1" -> Toggle(s, "ShowSettings")
      [] key = "F2" -> Toggle(s, "ShowOverlay")
      [] key = "R" -> Toggle(s, "IsRayTraced")
      [] OTHER -> s

\* OnKey, lines 154-183. wantsKeyboard is userInterface_->WantsToCaptureKeyboard()
\* and moved the result of modelViewController_.OnKey.
OnKey ==
    /\ EventDue
    /\ gpu.userInterface
    /\ \E key \in Keys, action \in KeyActions, wantsKeyboard \in BOOLEAN,
          moved \in BOOLEAN :
          IF wantsKeyboard
          THEN UNCHANGED <<window, userSettings_, isWireFrame_, resetAccumulation_>>
          ELSE /\ window' =
                     [window EXCEPT !.closeRequested =
                         @ \/ (action = "PRESS" /\ key = "ESCAPE")]
               /\ userSettings_' =
                     IF action = "PRESS" /\ ~userSettings_.Benchmark
                     THEN KeyToggles(userSettings_, key)
                     ELSE userSettings_
               /\ isWireFrame_' =
                     IF action = "PRESS" /\ ~userSettings_.Benchmark /\ key = "P"
                     THEN ~isWireFrame_
                     ELSE isWireFrame_
               /\ resetAccumulation_' = (resetAccumulation_ \/ moved)
    /\ edits' = edits + 1
    /\ UNCHANGED <<pc, ret, previousSettings_, cameraInitialSate_, sceneIndex_,
                   totalNumberOfSamples_, numberOfSamples_, time_,
                   sceneInitialTime_, periodInitialTime_, periodTotalFrames_,
                   scene_, newScene, gpu, lastFrame, out>>

\* OnCursorPosition, lines 185-196.
OnCursorPosition ==
    /\ EventDue
    /\ gpu.userInterface
    /\ \E wantsKeyboard \in BOOLEAN, wantsMouse \in BOOLEAN, moved \in BOOLEAN :
          resetAccumulation_' =
              IF userSettings_.Benchmark \/ wantsKeyboard \/ wantsMouse
              THEN resetAccumulation_
              ELSE resetAccumulation_ \/ moved
    /\ edits' = edits + 1
    /\ UNCHANGED <<pc, ret, userSettings_, previousSettings_, cameraInitialSate_,
                   sceneIndex_, totalNumberOfSamples_, numberOfSamples_,
                   isWireFrame_, time_, sceneInitialTime_, periodInitialTime_,
                   periodTotalFrames_, scene_, newScene, gpu, window,
                   lastFrame, out>>

\* OnMouseButton, lines 198-208.
OnMouseButton ==
    /\ EventDue
    /\ gpu.userInterface
    /\ \E wantsMouse \in BOOLEAN, moved \in BOOLEAN :
          resetAccumulation_' =
              IF userSettings_.Benchmark \/ wantsMouse
              THEN resetAccumulation_
              ELSE resetAccumulation_ \/ moved
    /\ edits' = edits + 1
    /\ UNCHANGED <<pc, ret, userSettings_, previousSettings_, cameraInitialSate_,
                   sceneIndex_, totalNumberOfSamples_, numberOfSamples_,
                   isWireFrame_, time_, sceneInitialTime_, periodInitialTime_,
                   periodTotalFrames_, scene_, newScene, gpu, window,
                   lastFrame, out>>

Next ==
    \/ OnDeviceSet
    \/ LoadSceneConstruct
    \/ LoadSceneReset
    \/ OnDeviceSetReturn
    \/ CreateSwapChain
    \/ DrawFrameSceneChange
    \/ DrawFrameRebuild
    \/ DrawFrameAccumulate
    \/ Render
    \/ RecreateSwapChain
    \/ UIEdit
    \/ OnKey
    \/ OnCursorPosition
    \/ OnMouseButton

Spec == Init /\ [][Next]_vars

(***************************************************************************)
(* A benchmark run: the settings window is never shown, so Next has no     *)
(* UIEdit step.                                                            *)
(***************************************************************************)
\* The benchmark runs: through the scenes with the short time limit, or in
\* one scene with either limit.
BenchmarkRuns ==
    {r \in BOOLEAN \X BenchmarkMaxTimeValues :
        r[1] => \A t \in BenchmarkMaxTimeValues : r[2] <= t}

BenchmarkInit ==
    \E r \in BenchmarkRuns :
        Constructed(StartSettings(TRUE, r[1], r[2]),
                    {StartWindow(FALSE, RequestedSize)})

BenchmarkNext ==
    \/ OnDeviceSet
    \/ LoadSceneConstruct
    \/ LoadSceneReset
    \/ OnDeviceSetReturn
    \/ CreateSwapChain
    \/ DrawFrameSceneChange
    \/ DrawFrameRebuild
    \/ DrawFrameAccumulate
    \/ Render
    \/ RecreateSwapChain
    \/ OnKey
    \/ OnCursorPosition
    \/ OnMouseButton

BenchmarkSpec == BenchmarkInit /\ [][BenchmarkNext]_vars

(***************************************************************************)
(* The benchmark runs with the short time limit, which the cap of the time *)
(* never cuts, left alone by the user (no input event and no resize of the *)
(* window), under the scheduling of the main loop: it goes on drawing      *)
(* frames as long as the window is open.                                   *)
(***************************************************************************)
ShortBenchmarkInit ==
    /\ BenchmarkInit
    /\ \A t \in BenchmarkMaxTimeValues : userSettings_.BenchmarkMaxTime <= t

FrameLoopNext ==
    \/ OnDeviceSet
    \/ LoadSceneConstruct
    \/ LoadSceneReset
    \/ OnDeviceSetReturn
    \/ CreateSwapChain
    \/ DrawFrameSceneChange
    \/ DrawFrameRebuild
    \/ DrawFrameAccumulate
    \/ Render

FairBenchmarkSpec ==
    ShortBenchmarkInit /\ [][FrameLoopNext]_vars /\ WF_vars(FrameLoopNext)

(***************************************************************************)
(* A run in which some writer of the settings requests any scene index,    *)
(* the active one again or one past the registry: LoadScene leaves the     *)
(* bound to its caller.                                                    *)
(***************************************************************************)
RequestScene ==
    /\ EventDue
    /\ \E i \in 0 .. SceneCount :
          /\ userSettings_' = [userSettings_ EXCEPT !.SceneIndex = i]
          /\ out' = [out EXCEPT !.requests = Append(@, [index |-> i, time |-> time_])]
    /\ edits' = edits + 1
    /\ UNCHANGED <<pc, ret, previousSettings_, cameraInitialSate_, sceneIndex_,
                   totalNumberOfSamples_, numberOfSamples_, resetAccumulation_,
                   isWireFrame_, time_, sceneInitialTime_, periodInitialTime_,
                   periodTotalFrames_, scene_, newScene, gpu, window,
                   lastFrame>>

RequestNext == Next \/ RequestScene

RequestSpec == Init /\ [][RequestNext]_vars

(***************************************************************************)
(* Runs in any window: windowed or fullscreen, with a framebuffer of the   *)
(* requested size or of another one, as a benchmark of one scene or        *)
(* interactive, with the samples of a run that accumulates.                *)
(***************************************************************************)
WindowSettings ==
    {s \in StartSettings(FALSE, FALSE, 0) \cup
            StartSettings(TRUE, FALSE,
                          CHOOSE t \in BenchmarkMaxTimeValues :
                              \A u \in BenchmarkMaxTimeValues : t <= u) :
        /\ s.AccumulateRays
        /\ s.NumberOfSamples > 0
        /\ s.MaxNumberOfSamples > 0}

WindowInit ==
    Constructed(WindowSettings,
                {StartWindow(f, z) : f \in BOOLEAN, z \in FramebufferSizes})

WindowSpec == WindowInit /\ [][Next]_vars

(***************************************************************************)
(* The accumulation counters.                                              *)
(***************************************************************************)
\* The state right after lines 99-112 of DrawFrame ran.
AfterBudget == pc = "ApplicationDrawFrame"

\* A step that runs lines 99-112 of DrawFrame.
AccumulateStep == pc = "loop" /\ pc' = "ApplicationDrawFrame"

\* C1: in every frame that reaches the budget computation, the samples of
\* the frame are at most what remains, maxTotalSamples - totalSamples taken
\* before the increment, and totalSamples is at most maxTotalSamples after it.
C1_BudgetWithinRemaining ==
    AfterBudget =>
        /\ 0 <= numberOfSamples_
        /\ numberOfSamples_ <= userSettings_.MaxNumberOfSamples - lastFrame.totalBefore
        /\ totalNumberOfSamples_ <= userSettings_.MaxNumberOfSamples

\* A frame that did not reset and whose budget was cut to what remained.
C1_Witness ==
    /\ AfterBudget
    /\ ~lastFrame.reset
    /\ lastFrame.totalBefore > 0
    /\ 0 < numberOfSamples_
    /\ numberOfSamples_ < userSettings_.NumberOfSamples

\* C2: in a frame that reaches the accumulation check, if the force-reset
\* flag is set, or the settings require a reset against the snapshot, or the
\* accumulate flag is off, then totalSamples is set to 0 before the budget
\* (so it equals samplesThisFrame after the frame's budget) and the flag is
\* cleared; if none of the three holds, totalSamples is not set to 0.
C2_ResetConditions ==
    [][AccumulateStep =>
          IF \/ resetAccumulation_
             \/ RequiresAccumulationReset(userSettings_, previousSettings_)
             \/ ~userSettings_.AccumulateRays
          THEN /\ lastFrame'.reset
               /\ lastFrame'.totalBefore = 0
               /\ totalNumberOfSamples_' = numberOfSamples_'
               /\ ~resetAccumulation_'
          ELSE /\ ~lastFrame'.reset
               /\ lastFrame'.totalBefore = totalNumberOfSamples_
               /\ totalNumberOfSamples_' = totalNumberOfSamples_ + numberOfSamples_'
               /\ ~resetAccumulation_']_vars

\* A frame reset by a change of the settings alone, with samples accumulated before.
C2_Witness ==
    /\ AfterBudget
    /\ lastFrame.reset
    /\ lastFrame.changed
    /\ ~lastFrame.flag
    /\ userSettings_.AccumulateRays
    /\ lastFrame.epochFrames = 1
    /\ totalNumberOfSamples_ = numberOfSamples_
    /\ numberOfSamples_ > 0

\* C3: every frame that reaches the budget takes
\* clamp(maxTotalSamples - totalSamples, 0, samplesPerFrame) samples; k frames
\* after a reset to 0 (the reset frame is the first) totalSamples is
\* min(k * samplesPerFrame, maxTotalSamples); and a frame that starts with
\* totalSamples = maxTotalSamples takes 0 samples.
C3_BudgetAndConvergence ==
    AfterBudget =>
        /\ numberOfSamples_ =
              Min(Max(userSettings_.MaxNumberOfSamples - lastFrame.totalBefore, 0),
                  userSettings_.NumberOfSamples)
        /\ totalNumberOfSamples_ =
              Min(lastFrame.epochFrames * userSettings_.NumberOfSamples,
                  userSettings_.MaxNumberOfSamples)
        /\ (lastFrame.totalBefore = userSettings_.MaxNumberOfSamples
               => numberOfSamples_ = 0)

\* The frame after convergence: two frames filled the budget, the third takes 0.
C3_Witness ==
    /\ AfterBudget
    /\ lastFrame.epochFrames = 3
    /\ userSettings_.NumberOfSamples = 2
    /\ userSettings_.MaxNumberOfSamples = 4
    /\ lastFrame.totalBefore = 4
    /\ numberOfSamples_ = 0
    /\ totalNumberOfSamples_ = 4

\* C4: over frames in which no visually relevant field changed, no force
\* reset is pending and accumulation is on, totalSamples does not decrease
\* and does not pass maxTotalSamples, and once equal to it, it stays.
C4_Monotonic ==
    [][(/\ AccumulateStep
        /\ ~resetAccumulation_
        /\ ~RequiresAccumulationReset(userSettings_, previousSettings_)
        /\ userSettings_.AccumulateRays)
       => /\ totalNumberOfSamples_' >= totalNumberOfSamples_
          /\ totalNumberOfSamples_' <= userSettings_.MaxNumberOfSamples
          /\ (totalNumberOfSamples_ = userSettings_.MaxNumberOfSamples
                 => totalNumberOfSamples_' = totalNumberOfSamples_)]_vars

\* A frame that went on accumulating although a UI toggle was switched.
C4_Witness ==
    /\ AfterBudget
    /\ ~lastFrame.reset
    /\ lastFrame.edited
    /\ ~lastFrame.changed
    /\ numberOfSamples_ > 0
    /\ totalNumberOfSamples_ > lastFrame.totalBefore
    /\ lastFrame.totalBefore > 0

\* C5 as stated: after a change of a visually relevant field the frame that
\* reaches the accumulation check resets totalSamples to 0 and, when
\* maxTotalSamples > 0, takes more than 0 samples.
C5_ResetThenSamples ==
    [][(/\ AccumulateStep
        /\ lastFrame.kind # "none"
        /\ RequiresAccumulationReset(userSettings_, previousSettings_))
       => /\ lastFrame'.reset
          /\ lastFrame'.totalBefore = 0
          /\ (userSettings_.MaxNumberOfSamples > 0 => numberOfSamples_' > 0)]_vars

\* C5, amended: the frame resets totalSamples to 0 and takes
\* min(maxTotalSamples, samplesPerFrame) samples, more than 0 when both
\* maxTotalSamples and the per-frame count are above 0.
C5_ResetThenSamplesIfPerFramePositive ==
    [][(/\ AccumulateStep
        /\ lastFrame.kind # "none"
        /\ RequiresAccumulationReset(userSettings_, previousSettings_))
       => /\ lastFrame'.reset
          /\ lastFrame'.totalBefore = 0
          /\ totalNumberOfSamples_' = numberOfSamples_'
          /\ numberOfSamples_' =
                Min(userSettings_.MaxNumberOfSamples, userSettings_.NumberOfSamples)
          /\ (userSettings_.MaxNumberOfSamples > 0 /\ userSettings_.NumberOfSamples > 0
                 => numberOfSamples_' > 0)]_vars

\* The first frame of a scene the user switched to, after frames of the old
\* scene: the scene index changed, the total restarts and samples are taken.
C5_Witness ==
    /\ AfterBudget
    /\ lastFrame.reset
    /\ lastFrame.changed
    /\ Len(out.loads) = 2
    /\ time_ > 0
    /\ previousSettings_.SceneIndex = out.loads[2]
    /\ totalNumberOfSamples_ = numberOfSamples_
    /\ numberOfSamples_ > 0

(***************************************************************************)
(* Scene changes.                                                          *)
(***************************************************************************)
IsPrefix(s, q) == Len(s) <= Len(q) /\ s = SubSeq(q, 1, Len(s))

SceneChangeCalls ==
    <<"WaitIdle", "DeleteSwapChain", "DeleteAccelerationStructures", "LoadScene",
      "CreateAccelerationStructures", "CreateSwapChain">>

\* C6: a DrawFrame that finds the scene index changed makes exactly the calls
\* wait-idle, delete swapchain, delete acceleration structures, load scene,
\* create acceleration structures, create swapchain, in this order; nothing
\* is destroyed while the device is busy, and the acceleration structures
\* exist when the swapchain-dependent objects are rebuilt.
C6_SceneChangeOrder ==
    /\ lastFrame.kind = "sceneChange" => IsPrefix(gpu.calls, SceneChangeCalls)
    /\ (lastFrame.kind = "sceneChange" /\ pc = "loop") => gpu.calls = SceneChangeCalls
    /\ ~gpu.hazard
    /\ ~gpu.dangling

\* A scene change that ran to its end after frames had been rendered.
C6_Witness ==
    /\ lastFrame.kind = "sceneChange"
    /\ pc = "loop"
    /\ time_ > 0
    /\ gpu.calls = SceneChangeCalls
    /\ gpu.swapChain /\ gpu.userInterface /\ gpu.accelerationStructures
    /\ sceneIndex_ = userSettings_.SceneIndex

LiveScenes ==
    (IF scene_ # NoScene THEN 1 ELSE 0) + (IF newScene # NoScene THEN 1 ELSE 0)

\* C7: at every point of every execution, inside LoadScene too, at most one
\* Scene object is alive.
C7_AtMostOneSceneAlive == LiveScenes <= 1

\* C8: when the frame driver processes a scene index outside the registry,
\* the outcome is a fatal error and the scene handle, the acceleration
\* structures, the swapchain-dependent resources and the active scene index
\* are as they were before the frame.
C8_OutOfRangeIsFatalAndClean ==
    (/\ lastFrame.kind = "sceneChange"
     /\ userSettings_.SceneIndex \notin SceneIndices
     /\ pc # "LoadScene")
    => /\ pc = "fatal"
       /\ gpu.swapChain /\ gpu.userInterface /\ gpu.accelerationStructures
       /\ sceneIndex_ \in SceneIndices
       /\ scene_ = sceneIndex_
       /\ newScene = NoScene

(***************************************************************************)
(* The benchmark controller.                                               *)
(***************************************************************************)
\* C9 as stated: the scene index of the settings is always inside the registry.
C9_SceneIndexInBounds == userSettings_.SceneIndex \in SceneIndices

\* C9, amended: the scene index of the settings is inside the registry, or
\* one past it after the benchmark left its last scene, which also asked
\* the window to close.
C9_SceneIndexInBoundsUntilClose ==
    \/ userSettings_.SceneIndex \in SceneIndices
    \/ /\ userSettings_.SceneIndex = SceneCount
       /\ userSettings_.Benchmark
       /\ out.advances > 0
       /\ window.closeRequested

\* The benchmark left the last scene of the registry.
C9_Witness ==
    /\ userSettings_.Benchmark
    /\ userSettings_.BenchmarkNextScenes
    /\ userSettings_.SceneIndex = SceneCount
    /\ sceneIndex_ = SceneCount - 1
    /\ window.closeRequested

\* A benchmark scene whose timers run.
InBenchmarkScene == userSettings_.Benchmark /\ periodTotalFrames_ > 0

\* C10 as stated: N time units into a benchmark scene the number of reports
\* is floor(N / period), give or take 1.
C10_ReportsMatchPeriods ==
    InBenchmarkScene =>
        LET periods == (time_ - sceneInitialTime_) \div BenchmarkPeriod
        IN  out.reports \in {periods - 1, periods, periods + 1}

\* C10, amended: the period restarts at the frame that reports, so each
\* report closes a stretch of at least one period and of less than a period
\* plus a frame time, the time since the last report stays below the period,
\* and the number of reports is at most floor(N / period).
C10_ReportsOncePerElapsedPeriod ==
    InBenchmarkScene =>
        /\ out.reports * BenchmarkPeriod <= periodInitialTime_ - sceneInitialTime_
        /\ periodInitialTime_ - sceneInitialTime_
              <= out.reports * (BenchmarkPeriod + MaxFrameTime)
        /\ time_ - periodInitialTime_ < BenchmarkPeriod
        /\ time_ >= periodInitialTime_
        /\ out.reports <= (time_ - sceneInitialTime_) \div BenchmarkPeriod

\* Two reports whose frames straddled the period boundaries.
C10_Witness ==
    /\ InBenchmarkScene
    /\ out.reports >= 2
    /\ periodInitialTime_ - sceneInitialTime_ > out.reports * BenchmarkPeriod

\* A benchmark run that ends with its first scene: the advance through the
\* scenes is off, or the run started at the last scene of the registry.
SingleSceneRun ==
    /\ userSettings_.Benchmark
    /\ Len(out.loads) >= 1
    /\ (~userSettings_.BenchmarkNextScenes \/ out.loads[1] = SceneCount - 1)

\* The scene time of the last rendered frame is past the limit.
SceneTimeExceeded ==
    pc = "loop" /\ time_ - sceneInitialTime_ > userSettings_.BenchmarkMaxTime

RenderStep == pc = "ApplicationDrawFrame" /\ time_' # time_

\* A step that enters DrawFrame.
DrawFrameStep == pc = "loop" /\ pc' # "loop"

\* C12: in a benchmark frame the scene advances iff the scene time exceeds
\* BenchmarkMaxTime or the frame took 0 samples; an advance increments the
\* requested scene index by exactly 1 and requests window close iff the
\* advance through the scenes is off or the index before the increment is the
\* last of the registry; otherwise no close is requested, and the next
\* DrawFrame finds the mismatch and loads the new index.
C12_AdvancePolicy ==
    /\ [][(RenderStep /\ userSettings_.Benchmark) =>
            LET limit ==
                    \/ time_' - sceneInitialTime_' > userSettings_.BenchmarkMaxTime
                    \/ numberOfSamples_ = 0
                closes ==
                    \/ ~userSettings_.BenchmarkNextScenes
                    \/ userSettings_.SceneIndex = SceneCount - 1
            IN  /\ out'.advances = out.advances + (IF limit THEN 1 ELSE 0)
                /\ userSettings_'.SceneIndex =
                      userSettings_.SceneIndex + (IF limit THEN 1 ELSE 0)
                /\ out'.closeCalls =
                      out.closeCalls + (IF limit /\ closes THEN 1 ELSE 0)
                /\ window'.closeRequested =
                      (window.closeRequested \/ (limit /\ closes))]_vars
    /\ [][(/\ DrawFrameStep
           /\ userSettings_.Benchmark
           /\ sceneIndex_ # userSettings_.SceneIndex)
          => (pc' = "LoadScene" /\ lastFrame'.kind = "sceneChange")]_vars
    /\ [][(pc = "LoadSceneReset" /\ userSettings_.Benchmark)
          => /\ sceneIndex_' = userSettings_.SceneIndex
             /\ scene_' = userSettings_.SceneIndex]_vars

\* A benchmark run that left a scene without closing the window and loaded
\* the next one.
C12_Witness ==
    /\ userSettings_.Benchmark
    /\ userSettings_.BenchmarkNextScenes
    /\ pc = "loop"
    /\ Len(out.loads) = 2
    /\ out.loads[2] = out.loads[1] + 1
    /\ out.advances = 1
    /\ out.closeCalls = 0
    /\ ~window.closeRequested
    /\ sceneIndex_ = userSettings_.SceneIndex
    /\ scene_ = sceneIndex_

(***************************************************************************)
(* The input handlers.                                                     *)
(***************************************************************************)
\* A step of OnKey, OnCursorPosition or OnMouseButton in a benchmark run
\* (in which the settings window makes no edits).
BenchmarkInputStep ==
    /\ userSettings_.Benchmark
    /\ pc = "loop"
    /\ pc' = "loop"
    /\ edits' = edits + 1

\* C13: an input event that arrives while benchmark mode is active is
\* ignored: the camera controller raises no accumulation reset through it,
\* and no setting and no window state changes.
C13_InputIgnoredInBenchmark ==
    [][BenchmarkInputStep =>
          UNCHANGED <<resetAccumulation_, userSettings_, isWireFrame_, window>>]_vars

\* C14: when the requested scene index equals the active one (the same index
\* requested again), DrawFrame makes no wait-idle, no teardown, no LoadScene
\* and no rebuild and raises no force reset; the scene, the active index and
\* the accumulation counters go on as in any frame without a scene request.
C14_SameIndexIsNoSceneChange ==
    [][(DrawFrameStep /\ sceneIndex_ = userSettings_.SceneIndex) =>
          LET reset == \/ resetAccumulation_
                       \/ RequiresAccumulationReset(userSettings_, previousSettings_)
                       \/ ~userSettings_.AccumulateRays
              total == IF reset THEN 0 ELSE totalNumberOfSamples_
          IN  /\ lastFrame'.kind = "accumulate"
              /\ gpu' = [gpu EXCEPT !.calls = <<>>]
              /\ UNCHANGED <<scene_, newScene, sceneIndex_, userSettings_, out>>
              /\ lastFrame'.reset = reset
              /\ ~resetAccumulation_'
              /\ numberOfSamples_' =
                    Min(Max(userSettings_.MaxNumberOfSamples - total, 0),
                        userSettings_.NumberOfSamples)
              /\ totalNumberOfSamples_' = total + numberOfSamples_']_vars

\* The frame that follows a second request of the loaded index, made after
\* frames had been rendered: it goes on accumulating.
C14_Witness ==
    /\ AfterBudget
    /\ Len(out.requests) = 1
    /\ out.requests[1].time > 0
    /\ out.requests[1].time = time_
    /\ Len(out.loads) = 1
    /\ out.requests[1].index = out.loads[1]
    /\ sceneIndex_ = userSettings_.SceneIndex
    /\ ~lastFrame.reset
    /\ lastFrame.totalBefore > 0
    /\ numberOfSamples_ > 0

AfterLoadScene == pc \in {"OnDeviceSetReturn", "DrawFrameRebuild"}

\* C16: after LoadScene(index) with index inside the registry, the active
\* scene index is index, the scene is the one of index, the field of view,
\* aperture, focus distance and gamma correction of the settings are the
\* initial camera values of that scene, the frame counter of the benchmark
\* period is 0 and the force-reset flag is set; and the camera controller is
\* reset exactly once per load.
C16_LoadScenePostcondition ==
    /\ [](AfterLoadScene /\ userSettings_.SceneIndex \in SceneIndices =>
            LET index == userSettings_.SceneIndex
            IN  /\ sceneIndex_ = index
                /\ scene_ = index
                /\ newScene = NoScene
                /\ out.loads[Len(out.loads)] = index
                /\ cameraInitialSate_ = CameraOf(index)
                /\ userSettings_.FieldOfView = CameraOf(index).FieldOfView
                /\ userSettings_.Aperture = CameraOf(index).Aperture
                /\ userSettings_.FocusDistance = CameraOf(index).FocusDistance
                /\ userSettings_.GammaCorrection = CameraOf(index).GammaCorrection
                /\ periodTotalFrames_ = 0
                /\ resetAccumulation_)
    /\ [][/\ out'.cameraResets =
                out.cameraResets + (IF pc = "LoadSceneReset" THEN 1 ELSE 0)
          /\ Len(out'.loads) =
                Len(out.loads) + (IF pc = "LoadSceneReset" THEN 1 ELSE 0)]_vars

\* The load of the next scene of a benchmark run, after frames of the first
\* one counted into the period.
C16_Witness ==
    /\ pc = "DrawFrameRebuild"
    /\ time_ > 0
    /\ Len(out.loads) = 2
    /\ out.cameraResets = 2
    /\ sceneIndex_ = out.loads[2]
    /\ out.loads[2] # out.loads[1]
    /\ userSettings_.FieldOfView = CameraOf(out.loads[2]).FieldOfView
    /\ userSettings_.FieldOfView # CameraOf(out.loads[1]).FieldOfView
    /\ periodTotalFrames_ = 0
    /\ resetAccumulation_

(***************************************************************************)
(* The framebuffer check.                                                  *)
(***************************************************************************)
\* A step that ends with CheckFramebufferSize: CreateSwapChain, called at
\* start-up, at the end of a scene change or by Application::RecreateSwapChain.
SwapChainCreationStep ==
    \/ pc \in {"CreateSwapChain", "DrawFrameRebuild"}
    \/ pc = "ApplicationDrawFrame" /\ time_' = time_

\* benchmark mode, fullscreen requested, and a framebuffer of another width
\* or height than requested.
FullscreenBenchmarkMismatch(s, w) ==
    /\ s.Benchmark
    /\ w.Fullscreen
    /\ ~(w.fbSize.width = w.Width /\ w.fbSize.height = w.Height)

\* C17: the constructor and every creation of the swapchain raise a runtime
\* error iff benchmark mode is on, fullscreen is requested and the
\* framebuffer differs from the requested size in width or height; nothing
\* else raises it, and a mismatch outside benchmark mode or in a windowed
\* run raises none.
C17_FatalIffFullscreenBenchmarkMismatch ==
    /\ (pc = "fatal" <=> FullscreenBenchmarkMismatch(userSettings_, window))
    /\ [][IF SwapChainCreationStep
          THEN pc' = "fatal" <=> FullscreenBenchmarkMismatch(userSettings_', window')
          ELSE pc' # "fatal"]_vars

\* A fullscreen benchmark that rendered frames and failed when the swapchain
\* was created again for a framebuffer of another size.
C17_Witness ==
    /\ pc = "fatal"
    /\ time_ > 0
    /\ gpu.swapChain
    /\ userSettings_.Benchmark
    /\ window.Fullscreen
    /\ window.fbSize # RequestedSize

(***************************************************************************)
(* The benchmark run as a whole.                                           *)
(***************************************************************************)
\* C18: a benchmark run that starts at a scene of the registry, with time
\* advancing in every rendered frame, eventually requests window close,
\* with the advance through the scenes on or off and for every sample
\* configuration.
C18_BenchmarkTerminates == <>(window.closeRequested)

\* A run through all scenes with accumulation off, which only the time limit
\* of each scene ended: the controller closed the window after the last one.
C18_Witness ==
    /\ userSettings_.Benchmark
    /\ userSettings_.BenchmarkNextScenes
    /\ ~userSettings_.AccumulateRays
    /\ numberOfSamples_ > 0
    /\ Len(out.loads) = SceneCount
    /\ out.advances = SceneCount
    /\ out.closeCalls = 1
    /\ window.closeRequested

\* C19: in a benchmark run LoadScene is only called with an index inside
\* the registry, the scenes are loaded in consecutive order of index, and
\* the requested index is never more than 1 above the active one.
C19_BenchmarkSequenceInBounds ==
    userSettings_.Benchmark =>
        /\ (pc \in {"LoadScene", "LoadSceneReset"}
               => userSettings_.SceneIndex \in SceneIndices)
        /\ \A k \in 1 .. Len(out.loads) : out.loads[k] \in SceneIndices
        /\ \A k \in 1 .. (Len(out.loads) - 1) : out.loads[k + 1] = out.loads[k] + 1
        /\ (Len(out.loads) >= 1 =>
               userSettings_.SceneIndex - sceneIndex_ \in {0, 1})

\* A run from the first scene through the whole registry: every scene was
\* loaded in turn, and the advance out of the last one closed the window.
C19_Witness ==
    /\ userSettings_.Benchmark
    /\ Len(out.loads) = SceneCount
    /\ out.loads[1] = 0
    /\ out.loads[SceneCount] = SceneCount - 1
    /\ userSettings_.SceneIndex = sceneIndex_ + 1
    /\ window.closeRequested
    /\ pc = "loop"

\* A step of a DrawFrame call that found the scene index changed, from its
\* entry to its return after the rebuild.
SceneChangeFrameStep ==
    /\ lastFrame'.kind = "sceneChange"
    /\ (pc # "loop" \/ pc' # "loop")

\* C20: a DrawFrame that finds the scene index changed returns after the
\* rebuild without rendering: it leaves totalSamples, samplesThisFrame and the
\* snapshot of the settings as they are, the benchmark controller does not
\* run (no time is taken, no timer set, nothing reported, no advance), and
\* the force-reset flag is set on return, so that the next frame that reaches
\* the accumulation check resets the total and takes the first samples of the
\* new scene.
C20_SceneChangeFrameEffect ==
    /\ [][SceneChangeFrameStep =>
            /\ UNCHANGED <<totalNumberOfSamples_, numberOfSamples_,
                           previousSettings_, time_, sceneInitialTime_,
                           periodInitialTime_, window>>
            /\ out'.starts = out.starts
            /\ out'.reports = out.reports
            /\ out'.advances = out.advances
            /\ out'.closeCalls = out.closeCalls
            /\ out'.events = out.events
            /\ pc' # "ApplicationDrawFrame"]_vars
    /\ []((lastFrame.kind = "sceneChange" /\ pc = "loop") =>
            /\ resetAccumulation_
            /\ \A k \in 1 .. Len(gpu.calls) : gpu.calls[k] # "Render")
    /\ [][(AccumulateStep /\ lastFrame.kind = "sceneChange") =>
            /\ lastFrame'.flag
            /\ lastFrame'.reset
            /\ lastFrame'.totalBefore = 0
            /\ numberOfSamples_' =
                  Min(userSettings_.MaxNumberOfSamples, userSettings_.NumberOfSamples)
            /\ totalNumberOfSamples_' = numberOfSamples_']_vars

\* The first frame of the second scene of a benchmark run: the scene-change
\* frame before it kept the total of the first scene, this one restarts it.
C20_Witness ==
    /\ AfterBudget
    /\ userSettings_.Benchmark
    /\ Len(out.loads) = 2
    /\ sceneIndex_ = out.loads[2]
    /\ previousSettings_.SceneIndex = out.loads[2]
    /\ out.starts = 1
    /\ lastFrame.reset
    /\ lastFrame.flag
    /\ lastFrame.epochFrames = 1
    /\ numberOfSamples_ > 0
    /\ totalNumberOfSamples_ = numberOfSamples_

====
